---- MODULE Spec2Model ----
(***************************************************************************)
(* Double opt-in subscription of fabriguespe/xmtp-frame-subscribe-button.  *)
(*                                                                         *)
(* Two entry points are modelled from src/README.md:                       *)
(*   - getResponse (app/api/frame/route.ts): one run per button click;     *)
(*   - handleClick (pages/consent.tsx): the consent toggle of a page.      *)
(* Every await of the source is a step; the synchronous code that follows  *)
(* an await belongs to the step of that await.                             *)
(***************************************************************************)
EXTENDS Integers, Sequences, FiniteSets, TLC

\* ---------------------------------------------------------------- bounds
MaxClicks == 2
NumAddr == 2
MaxVerifications == 2
NumPages == 2
MaxInvocations == 3

Clicks == 1..MaxClicks
Addr == 1..NumAddr
Pages == 1..NumPages

\* the value of verifications[0] for an empty list (JavaScript undefined)
Undefined == 0
Keys == Addr \cup {Undefined}

\* --------------------------------------------------------- button labels
AlreadySubscribedLabel == "You are already subscribed"
NotOnNetworkLabel == "Address is not on the XMTP network. "
SubscribedLabel == "Subscribed! Check your inbox for a confirmation link."
ConsentLabelPrefix == "Consent State: "
InitialSubscriptionStatus == "Consent State: unknown"

ConsentStates == {"unknown", "allowed", "denied"}

VARIABLES
    \* ---- Subscription Store (Redis / localDB), key -> subscribed
    store,
    \* ---- getResponse, one run per click
    pc,              \* position of the click in getResponse
    accountAddress,  \* user.verifications[0]
    returnMessage,   \* label of the button in the response
    error,           \* the exception that left getResponse, "none" if none
    isOnNetwork,     \* local variable isOnNetwork: "none", "true", "false"
    presenceAnswer,  \* history: what the presence query did: "none", "true", "false", "failed"
    subscribedRead,  \* result of the store read: "none", "true", "false"
    raced,           \* history: the store read overlapped another click's read..write window
    sendState,       \* the un-awaited sendMessage: "none", "pending", "ok", "failed"
    calls,           \* history: number of external calls made by the click
    \* ---- XMTP network: consent state of an address for itself
    consent,
    \* ---- handleClick of a consent page
    hpc,                \* position of the page's handleClick, "idle" between invocations
    wallet,             \* address of the connected wallet
    state,              \* local variable `state`
    subscriptionStatus, \* React state: the displayed label
    loading,            \* React state: the loading flag
    invocations,        \* number of handleClick invocations started so far
    startState,         \* history: consent state seen by the refresh of this invocation
    hcalls,             \* history: allow / deny calls of the current invocation
    caught,             \* history: the last invocation ended in the catch block
    labelBefore,        \* history: the displayed label when the invocation started
    before              \* history: consent state of an address before its last toggle: "none" if never
                        \* toggled, "raced" if the state changed between the refresh and the call

frameVars == <<store, pc, accountAddress, returnMessage, error, isOnNetwork,
               presenceAnswer, subscribedRead, raced, sendState, calls>>
consentVars == <<consent, hpc, wallet, state, subscriptionStatus, loading,
                 invocations, startState, hcalls, caught, labelBefore, before>>
vars == <<frameVars, consentVars>>

NoCalls == [lookup |-> 0, read |-> 0, client |-> 0, presence |-> 0,
            write |-> 0, conversation |-> 0, send |-> 0]
NoConsentCalls == [refresh |-> 0, allow |-> 0, deny |-> 0]

Init ==
    /\ store = [k \in Keys |-> FALSE]
    /\ pc = [c \in Clicks |-> "NEW"]
    /\ accountAddress = [c \in Clicks |-> Undefined]
    /\ returnMessage = [c \in Clicks |-> ""]
    /\ error = [c \in Clicks |-> "none"]
    /\ isOnNetwork = [c \in Clicks |-> "none"]
    /\ presenceAnswer = [c \in Clicks |-> "none"]
    /\ subscribedRead = [c \in Clicks |-> "none"]
    /\ raced = [c \in Clicks |-> FALSE]
    /\ sendState = [c \in Clicks |-> "none"]
    /\ calls = [c \in Clicks |-> NoCalls]
    /\ consent = [a \in Addr |-> "unknown"]
    /\ hpc = [p \in Pages |-> "idle"]
    /\ wallet = [p \in Pages |-> Undefined]
    /\ state = [p \in Pages |-> "unknown"]
    /\ subscriptionStatus = [p \in Pages |-> InitialSubscriptionStatus]
    /\ loading = [p \in Pages |-> FALSE]
    /\ invocations = 0
    /\ startState = [p \in Pages |-> "unknown"]
    /\ hcalls = [p \in Pages |-> NoConsentCalls]
    /\ caught = [p \in Pages |-> FALSE]
    /\ labelBefore = [p \in Pages |-> InitialSubscriptionStatus]
    /\ before = [a \in Addr |-> "none"]

\* ======================================================================
\*                      getResponse  (button click)
\* ======================================================================

\* an exception leaves getResponse: nothing in it catches
Throw(c, e) ==
    /\ pc' = [pc EXCEPT ![c] = "thrown"]
    /\ error' = [error EXCEPT ![c] = e]

Called(c, what) == calls' = [calls EXCEPT ![c][what] = @ + 1]

\* lists of verified addresses the directory can return for a user
VerificationLists ==
    UNION {[1..n -> Addr] : n \in 0..MaxVerifications}

\* answers of the directory lookup: the fetch fails, data.users is empty,
\* the user has no verifications field, or the user has a verification list
DirectoryResponses ==
    {[kind |-> k, verifications |-> <<>>] : k \in {"fetch_failed", "no_users", "no_list"}}
    \cup {[kind |-> "user", verifications |-> v] : v \in VerificationLists}

\* user.verifications[0]: undefined for an empty list
FirstVerification(v) == IF Len(v) = 0 THEN Undefined ELSE v[1]

\* fetch the user of the fid and take the first verified address
ResolveIdentity(c) ==
    /\ pc[c] = "NEW"
    /\ Called(c, "lookup")
    /\ \E resp \in DirectoryResponses :
        CASE resp.kind = "fetch_failed" ->
                /\ Throw(c, "FetchFailed")
                /\ UNCHANGED accountAddress
          [] resp.kind \in {"no_users", "no_list"} ->
                /\ Throw(c, "TypeError")
                /\ UNCHANGED accountAddress
          [] OTHER ->
                /\ accountAddress' = [accountAddress EXCEPT ![c] = FirstVerification(resp.verifications)]
                /\ pc' = [pc EXCEPT ![c] = "RESOLVING"]
                /\ UNCHANGED error
    /\ UNCHANGED <<store, returnMessage, isOnNetwork, presenceAnswer, subscribedRead, raced, sendState>>
    /\ UNCHANGED consentVars

\* a click is between its store read (not subscribed) and its store write
InWindow(c) == pc[c] \in {"INIT", "CHECKING_NETWORK", "SUBSCRIBING"}

\* variant of CheckSubscribed: the label is set for a subscribed address
\* but the click goes on to the next step
CheckSubscribed_NoShortCircuit(c) ==
    /\ pc[c] = "RESOLVING"
    /\ Called(c, "read")
    /\ \/ /\ Throw(c, "StoreReadFailed")
          /\ UNCHANGED <<returnMessage, subscribedRead, raced>>
       \/ /\ store[accountAddress[c]]
          /\ subscribedRead' = [subscribedRead EXCEPT ![c] = "true"]
          /\ returnMessage' = [returnMessage EXCEPT ![c] = AlreadySubscribedLabel]
          /\ pc' = [pc EXCEPT ![c] = "INIT"]
          /\ UNCHANGED <<error, raced>>
       \/ /\ ~store[accountAddress[c]]
          /\ subscribedRead' = [subscribedRead EXCEPT ![c] = "false"]
          /\ raced' = [raced EXCEPT ![c] =
                \E d \in Clicks \ {c} : InWindow(d) /\ accountAddress[d] = accountAddress[c]]
          /\ pc' = [pc EXCEPT ![c] = "INIT"]
          /\ UNCHANGED <<error, returnMessage>>
    /\ UNCHANGED <<store, accountAddress, isOnNetwork, presenceAnswer, sendState>>
    /\ UNCHANGED consentVars

\* variant of CheckSubscribed: the store is not consulted, every address
\* is taken as not subscribed
CheckSubscribed_IgnoresStore(c) ==
    /\ pc[c] = "RESOLVING"
    /\ Called(c, "read")
    /\ \/ /\ Throw(c, "StoreReadFailed")
          /\ UNCHANGED <<returnMessage, subscribedRead, raced>>
       \/ /\ subscribedRead' = [subscribedRead EXCEPT ![c] = "false"]
          /\ raced' = [raced EXCEPT ![c] =
                \E d \in Clicks \ {c} : InWindow(d) /\ accountAddress[d] = accountAddress[c]]
          /\ pc' = [pc EXCEPT ![c] = "INIT"]
          /\ UNCHANGED <<error, returnMessage>>
    /\ UNCHANGED <<store, accountAddress, isOnNetwork, presenceAnswer, sendState>>
    /\ UNCHANGED consentVars

\* step 1: is the address already subscribed in the store
CheckSubscribed(c) ==
    /\ pc[c] = "RESOLVING"
    /\ Called(c, "read")
    /\ \/ /\ Throw(c, "StoreReadFailed")
          /\ UNCHANGED <<returnMessage, subscribedRead, raced>>
       \/ /\ store[accountAddress[c]]
          /\ subscribedRead' = [subscribedRead EXCEPT ![c] = "true"]
          /\ returnMessage' = [returnMessage EXCEPT ![c] = AlreadySubscribedLabel]
          /\ pc' = [pc EXCEPT ![c] = "done"]
          /\ UNCHANGED <<error, raced>>
       \/ /\ ~store[accountAddress[c]]
          /\ subscribedRead' = [subscribedRead EXCEPT ![c] = "false"]
          /\ raced' = [raced EXCEPT ![c] =
                \E d \in Clicks \ {c} : InWindow(d) /\ accountAddress[d] = accountAddress[c]]
          /\ pc' = [pc EXCEPT ![c] = "INIT"]
          /\ UNCHANGED <<error, returnMessage>>
    /\ UNCHANGED <<store, accountAddress, isOnNetwork, presenceAnswer, sendState>>
    /\ UNCHANGED consentVars

\* initializeWallet and createXMTPClient
InitClient(c) ==
    /\ pc[c] = "INIT"
    /\ Called(c, "client")
    /\ \/ Throw(c, "ClientInitFailed")
       \/ /\ pc' = [pc EXCEPT ![c] = "CHECKING_NETWORK"]
          /\ UNCHANGED error
    /\ UNCHANGED <<store, accountAddress, returnMessage, isOnNetwork, presenceAnswer, subscribedRead, raced, sendState>>
    /\ UNCHANGED consentVars

\* what the presence query of the XMTP client can do for an address
PresenceAnswers(a) == IF a = Undefined THEN {"false", "failed"} ELSE {"true", "false", "failed"}

\* checkAddressIsOnNetwork: the answer of the query, a failure of the
\* transport is raised to the caller as PresenceCheckFailed
CheckAddressIsOnNetwork(answer) ==
    IF answer = "failed" THEN [threw |-> TRUE, value |-> "none"]
    ELSE [threw |-> FALSE, value |-> answer]

\* variant of CheckNetwork: a failure of the presence check is caught and
\* falls into the else branch like a negative answer
CheckNetwork_FailureAsNegative(c) ==
    /\ pc[c] = "CHECKING_NETWORK"
    /\ Called(c, "presence")
    /\ \E answer \in PresenceAnswers(accountAddress[c]) :
        LET r == CheckAddressIsOnNetwork(answer) IN
        /\ presenceAnswer' = [presenceAnswer EXCEPT ![c] = answer]
        /\ CASE ~r.threw /\ r.value = "true" ->
                /\ isOnNetwork' = [isOnNetwork EXCEPT ![c] = r.value]
                /\ pc' = [pc EXCEPT ![c] = "SUBSCRIBING"]
                /\ UNCHANGED <<error, returnMessage>>
             [] OTHER ->
                /\ isOnNetwork' = [isOnNetwork EXCEPT ![c] = "false"]
                /\ returnMessage' = [returnMessage EXCEPT ![c] = NotOnNetworkLabel]
                /\ pc' = [pc EXCEPT ![c] = "done"]
                /\ UNCHANGED error
    /\ UNCHANGED <<store, accountAddress, subscribedRead, raced, sendState>>
    /\ UNCHANGED consentVars

\* variant of CheckNetwork: the test is `isOnNetwork !== undefined`, a
\* negative answer goes on to subscribe like a positive one
CheckNetwork_NegativeProceeds(c) ==
    /\ pc[c] = "CHECKING_NETWORK"
    /\ Called(c, "presence")
    /\ \E answer \in PresenceAnswers(accountAddress[c]) :
        LET r == CheckAddressIsOnNetwork(answer) IN
        /\ presenceAnswer' = [presenceAnswer EXCEPT ![c] = answer]
        /\ CASE r.threw ->
                /\ Throw(c, "PresenceCheckFailed")
                /\ UNCHANGED <<isOnNetwork, returnMessage>>
             [] OTHER ->
                /\ isOnNetwork' = [isOnNetwork EXCEPT ![c] = r.value]
                /\ pc' = [pc EXCEPT ![c] = "SUBSCRIBING"]
                /\ UNCHANGED <<error, returnMessage>>
    /\ UNCHANGED <<store, accountAddress, subscribedRead, raced, sendState>>
    /\ UNCHANGED consentVars

\* step 2: await checkAddressIsOnNetwork; the else branch of
\* `isOnNetwork === true` sets the label and the response is returned
CheckNetwork(c) ==
    /\ pc[c] = "CHECKING_NETWORK"
    /\ Called(c, "presence")
    /\ \E answer \in PresenceAnswers(accountAddress[c]) :
        LET r == CheckAddressIsOnNetwork(answer) IN
        /\ presenceAnswer' = [presenceAnswer EXCEPT ![c] = answer]
        /\ CASE r.threw ->
                /\ Throw(c, "PresenceCheckFailed")
                /\ UNCHANGED <<isOnNetwork, returnMessage>>
             [] ~r.threw /\ r.value = "true" ->
                /\ isOnNetwork' = [isOnNetwork EXCEPT ![c] = r.value]
                /\ pc' = [pc EXCEPT ![c] = "SUBSCRIBING"]
                /\ UNCHANGED <<error, returnMessage>>
             [] OTHER ->
                /\ isOnNetwork' = [isOnNetwork EXCEPT ![c] = r.value]
                /\ returnMessage' = [returnMessage EXCEPT ![c] = NotOnNetworkLabel]
                /\ pc' = [pc EXCEPT ![c] = "done"]
                /\ UNCHANGED error
    /\ UNCHANGED <<store, accountAddress, subscribedRead, raced, sendState>>
    /\ UNCHANGED consentVars

\* variant of SetSubscribed: the write is acknowledged but the flag is not stored
SetSubscribed_WriteLost(c) ==
    /\ pc[c] = "SUBSCRIBING"
    /\ Called(c, "write")
    /\ \/ /\ Throw(c, "StoreWriteFailed")
          /\ UNCHANGED store
       \/ /\ store' = store
          /\ pc' = [pc EXCEPT ![c] = "MESSAGING"]
          /\ UNCHANGED error
    /\ UNCHANGED <<accountAddress, returnMessage, isOnNetwork, presenceAnswer, subscribedRead, raced, sendState>>
    /\ UNCHANGED consentVars

\* variant of SetSubscribed: subscribing also records the consent of the address as allowed
SetSubscribed_AlsoAllows(c) ==
    /\ pc[c] = "SUBSCRIBING"
    /\ Called(c, "write")
    /\ \/ /\ Throw(c, "StoreWriteFailed")
          /\ UNCHANGED <<store, consent>>
       \/ /\ store' = [store EXCEPT ![accountAddress[c]] = TRUE]
          /\ consent' = [consent EXCEPT ![accountAddress[c]] = "allowed"]
          /\ pc' = [pc EXCEPT ![c] = "MESSAGING"]
          /\ UNCHANGED error
    /\ UNCHANGED <<accountAddress, returnMessage, isOnNetwork, presenceAnswer, subscribedRead, raced, sendState>>
    /\ UNCHANGED <<hpc, wallet, state, subscriptionStatus, loading, invocations, startState,
                   hcalls, caught, labelBefore, before>>

\* step 3, first item: set the address as subscribed in the store
SetSubscribed(c) ==
    /\ pc[c] = "SUBSCRIBING"
    /\ Called(c, "write")
    /\ \/ /\ Throw(c, "StoreWriteFailed")
          /\ UNCHANGED store
       \/ /\ store' = [store EXCEPT ![accountAddress[c]] = TRUE]
          /\ pc' = [pc EXCEPT ![c] = "MESSAGING"]
          /\ UNCHANGED error
    /\ UNCHANGED <<accountAddress, returnMessage, isOnNetwork, presenceAnswer, subscribedRead, raced, sendState>>
    /\ UNCHANGED consentVars

\* variant of OpenConversationAndSend: the conversation is opened and the
\* message sent without waiting for the store write
OpenConversationAndSend_BeforeWrite(c) ==
    /\ pc[c] \in {"SUBSCRIBING", "MESSAGING"}
    /\ \/ /\ Throw(c, "MessageDeliveryFailed")
          /\ calls' = [calls EXCEPT ![c].conversation = @ + 1]
          /\ UNCHANGED <<returnMessage, sendState>>
       \/ /\ returnMessage' = [returnMessage EXCEPT ![c] = SubscribedLabel]
          /\ sendState' = [sendState EXCEPT ![c] = "pending"]
          /\ calls' = [calls EXCEPT ![c].conversation = @ + 1, ![c].send = @ + 1]
          /\ pc' = [pc EXCEPT ![c] = "done"]
          /\ UNCHANGED error
    /\ UNCHANGED <<store, accountAddress, isOnNetwork, presenceAnswer, subscribedRead, raced>>
    /\ UNCHANGED consentVars

\* step 3, second and third item: await newConversation, set the label,
\* call sendMessage without awaiting it and return the response
OpenConversationAndSend(c) ==
    /\ pc[c] = "MESSAGING"
    /\ \/ /\ Throw(c, "MessageDeliveryFailed")
          /\ calls' = [calls EXCEPT ![c].conversation = @ + 1]
          /\ UNCHANGED <<returnMessage, sendState>>
       \/ /\ returnMessage' = [returnMessage EXCEPT ![c] = SubscribedLabel]
          /\ sendState' = [sendState EXCEPT ![c] = "pending"]
          /\ calls' = [calls EXCEPT ![c].conversation = @ + 1, ![c].send = @ + 1]
          /\ pc' = [pc EXCEPT ![c] = "done"]
          /\ UNCHANGED error
    /\ UNCHANGED <<store, accountAddress, isOnNetwork, presenceAnswer, subscribedRead, raced>>
    /\ UNCHANGED consentVars

\* the promise of sendMessage settles, possibly after the response
SendSettles(c) ==
    /\ sendState[c] = "pending"
    /\ \E r \in {"ok", "failed"} : sendState' = [sendState EXCEPT ![c] = r]
    /\ UNCHANGED <<store, pc, accountAddress, returnMessage, error, isOnNetwork,
                   presenceAnswer, subscribedRead, raced, calls>>
    /\ UNCHANGED consentVars

\* the process handling the click dies between two steps
Crash(c) ==
    /\ pc[c] \notin {"done", "thrown", "crashed"}
    /\ pc' = [pc EXCEPT ![c] = "crashed"]
    /\ sendState' = sendState
    /\ UNCHANGED <<store, accountAddress, returnMessage, error, isOnNetwork,
                   presenceAnswer, subscribedRead, raced, calls>>
    /\ UNCHANGED consentVars

NextFrame ==
    \E c \in Clicks :
        \/ ResolveIdentity(c)
        \/ CheckSubscribed(c)
        \/ InitClient(c)
        \/ CheckNetwork(c)
        \/ SetSubscribed(c)
        \/ OpenConversationAndSend(c)
        \/ SendSettles(c)
        \/ Crash(c)

SpecFrame == Init /\ [][NextFrame]_vars

\* ======================================================================
\*                      handleClick  (consent page)
\* ======================================================================

\* the catch block: console.log(error), nothing else
Catch(p) ==
    /\ hpc' = [hpc EXCEPT ![p] = "idle"]
    /\ caught' = [caught EXCEPT ![p] = TRUE]

\* variant of HandleClick: the loading flag is not set at the start
HandleClick_NoLoading(p) ==
    /\ hpc[p] = "idle"
    /\ invocations < MaxInvocations
    /\ invocations' = invocations + 1
    /\ hcalls' = [hcalls EXCEPT ![p] = NoConsentCalls]
    /\ caught' = [caught EXCEPT ![p] = FALSE]
    /\ hpc' = [hpc EXCEPT ![p] = "connect"]
    /\ labelBefore' = [labelBefore EXCEPT ![p] = subscriptionStatus[p]]
    /\ UNCHANGED <<consent, wallet, state, subscriptionStatus, startState, before, loading>>
    /\ UNCHANGED frameVars

\* the user presses the button of the page: setLoading(true)
HandleClick(p) ==
    /\ hpc[p] = "idle"
    /\ invocations < MaxInvocations
    /\ invocations' = invocations + 1
    /\ loading' = [loading EXCEPT ![p] = TRUE]
    /\ hcalls' = [hcalls EXCEPT ![p] = NoConsentCalls]
    /\ caught' = [caught EXCEPT ![p] = FALSE]
    /\ hpc' = [hpc EXCEPT ![p] = "connect"]
    /\ labelBefore' = [labelBefore EXCEPT ![p] = subscriptionStatus[p]]
    /\ UNCHANGED <<consent, wallet, state, subscriptionStatus, startState, before>>
    /\ UNCHANGED frameVars

\* await connectWallet()
ConnectWallet(p) ==
    /\ hpc[p] = "connect"
    /\ \/ /\ Catch(p)
          /\ UNCHANGED wallet
       \/ /\ \E w \in Addr : wallet' = [wallet EXCEPT ![p] = w]
          /\ hpc' = [hpc EXCEPT ![p] = "create"]
          /\ UNCHANGED caught
    /\ UNCHANGED <<consent, state, subscriptionStatus, loading, invocations, startState, hcalls,
                   labelBefore, before>>
    /\ UNCHANGED frameVars

\* variant of CreateClient: the consent list is not refreshed, the toggle
\* works on the state the page had
CreateClient_SkipsRefresh(p) ==
    /\ hpc[p] = "create"
    /\ \/ Catch(p)
       \/ /\ hpc' = [hpc EXCEPT ![p] = "toggle"]
          /\ UNCHANGED caught
    /\ UNCHANGED <<consent, wallet, state, subscriptionStatus, loading, invocations, startState,
                   hcalls, labelBefore, before>>
    /\ UNCHANGED frameVars

\* await Client.create(wallet, ...)
CreateClient(p) ==
    /\ hpc[p] = "create"
    /\ \/ Catch(p)
       \/ /\ hpc' = [hpc EXCEPT ![p] = "refresh"]
          /\ UNCHANGED caught
    /\ UNCHANGED <<consent, wallet, state, subscriptionStatus, loading, invocations, startState,
                   hcalls, labelBefore, before>>
    /\ UNCHANGED frameVars

\* await client.contacts.refreshConsentList(), then
\* state = client.contacts.consentState(client.address) on the refreshed list
RefreshConsentList(p) ==
    /\ hpc[p] = "refresh"
    /\ \/ /\ Catch(p)
          /\ UNCHANGED <<state, startState, hcalls>>
       \/ /\ state' = [state EXCEPT ![p] = consent[wallet[p]]]
          /\ startState' = [startState EXCEPT ![p] = consent[wallet[p]]]
          /\ hcalls' = [hcalls EXCEPT ![p].refresh = @ + 1]
          /\ hpc' = [hpc EXCEPT ![p] = "toggle"]
          /\ UNCHANGED caught
    /\ UNCHANGED <<consent, wallet, subscriptionStatus, loading, invocations, labelBefore, before>>
    /\ UNCHANGED frameVars

\* variant of Toggle: only the unknown state is allowed, denied is left alone
Toggle_DeniedStays(s) == IF s = "unknown" THEN "allowed"
                         ELSE IF s = "allowed" THEN "denied" ELSE s

\* variant of Toggle: the control only accepts, an allowed state stays allowed
Toggle_AcceptOnly(s) == IF s = "unknown" \/ s = "denied" THEN "allowed" ELSE s

\* the toggle rule of the if / else if
Toggle(s) == IF s = "unknown" \/ s = "denied" THEN "allowed"
             ELSE IF s = "allowed" THEN "denied" ELSE s

\* variant of ToggleConsent: denying consent also clears the subscribed flag of the address
ToggleConsent_DenyUnsubscribes(p) ==
    /\ hpc[p] = "toggle"
    /\ state' = [state EXCEPT ![p] = Toggle(state[p])]
    /\ hcalls' = [hcalls EXCEPT ![p] =
            IF state[p] = "unknown" \/ state[p] = "denied" THEN [@ EXCEPT !.allow = @ + 1]
            ELSE IF state[p] = "allowed" THEN [@ EXCEPT !.deny = @ + 1] ELSE @]
    /\ \/ /\ Catch(p)
          /\ UNCHANGED <<consent, before, store>>
       \/ /\ consent' = [consent EXCEPT ![wallet[p]] = Toggle(state[p])]
          /\ store' = IF state[p] = "allowed" THEN [store EXCEPT ![wallet[p]] = FALSE] ELSE store
          /\ before' = [before EXCEPT ![wallet[p]] =
                IF startState[p] = consent[wallet[p]] THEN consent[wallet[p]] ELSE "raced"]
          /\ hpc' = [hpc EXCEPT ![p] = "render"]
          /\ UNCHANGED caught
    /\ UNCHANGED <<wallet, subscriptionStatus, loading, invocations, startState, labelBefore>>
    /\ UNCHANGED <<pc, accountAddress, returnMessage, error, isOnNetwork,
                   presenceAnswer, subscribedRead, raced, sendState, calls>>

\* variant of ToggleConsent: the label is set before the call is awaited
ToggleConsent_LabelFirst(p) ==
    /\ hpc[p] = "toggle"
    /\ state' = [state EXCEPT ![p] = Toggle(state[p])]
    /\ subscriptionStatus' = [subscriptionStatus EXCEPT ![p] = ConsentLabelPrefix \o Toggle(state[p])]
    /\ hcalls' = [hcalls EXCEPT ![p] =
            IF state[p] = "unknown" \/ state[p] = "denied" THEN [@ EXCEPT !.allow = @ + 1]
            ELSE IF state[p] = "allowed" THEN [@ EXCEPT !.deny = @ + 1] ELSE @]
    /\ \/ /\ Catch(p)
          /\ UNCHANGED <<consent, before>>
       \/ /\ consent' = [consent EXCEPT ![wallet[p]] = Toggle(state[p])]
          /\ before' = [before EXCEPT ![wallet[p]] =
                IF startState[p] = consent[wallet[p]] THEN consent[wallet[p]] ELSE "raced"]
          /\ hpc' = [hpc EXCEPT ![p] = "render"]
          /\ UNCHANGED caught
    /\ UNCHANGED <<wallet, loading, invocations, startState, labelBefore>>
    /\ UNCHANGED frameVars

\* the if / else if: state is assigned, then contacts.allow or contacts.deny is awaited
ToggleConsent(p) ==
    /\ hpc[p] = "toggle"
    /\ state' = [state EXCEPT ![p] = Toggle(state[p])]
    /\ hcalls' = [hcalls EXCEPT ![p] =
            IF state[p] = "unknown" \/ state[p] = "denied" THEN [@ EXCEPT !.allow = @ + 1]
            ELSE IF state[p] = "allowed" THEN [@ EXCEPT !.deny = @ + 1] ELSE @]
    /\ \/ /\ Catch(p)
          /\ UNCHANGED <<consent, before>>
       \/ /\ consent' = [consent EXCEPT ![wallet[p]] = Toggle(state[p])]
          /\ before' = [before EXCEPT ![wallet[p]] =
                IF startState[p] = consent[wallet[p]] THEN consent[wallet[p]] ELSE "raced"]
          /\ hpc' = [hpc EXCEPT ![p] = "render"]
          /\ UNCHANGED caught
    /\ UNCHANGED <<wallet, subscriptionStatus, loading, invocations, startState, labelBefore>>
    /\ UNCHANGED frameVars

\* setSubscriptionStatus('Consent State: ' + state); setLoading(false)
SetSubscriptionStatus(p) ==
    /\ hpc[p] = "render"
    /\ subscriptionStatus' = [subscriptionStatus EXCEPT ![p] = ConsentLabelPrefix \o state[p]]
    /\ loading' = [loading EXCEPT ![p] = FALSE]
    /\ hpc' = [hpc EXCEPT ![p] = "idle"]
    /\ UNCHANGED <<consent, wallet, state, invocations, startState, hcalls, caught,
                   labelBefore, before>>
    /\ UNCHANGED frameVars

NextConsent ==
    \E p \in Pages :
        \/ HandleClick(p)
        \/ ConnectWallet(p)
        \/ CreateClient(p)
        \/ RefreshConsentList(p)
        \/ ToggleConsent(p)
        \/ SetSubscriptionStatus(p)

SpecConsent == Init /\ [][NextConsent]_vars

\* one button click and one consent page, interleaved in any order
NextDoubleOptIn ==
    \/ \E c \in {1} :
        \/ ResolveIdentity(c)
        \/ CheckSubscribed(c)
        \/ InitClient(c)
        \/ CheckNetwork(c)
        \/ SetSubscribed(c)
        \/ OpenConversationAndSend(c)
        \/ SendSettles(c)
        \/ Crash(c)
    \/ \E p \in {1} :
        \/ HandleClick(p)
        \/ ConnectWallet(p)
        \/ CreateClient(p)
        \/ RefreshConsentList(p)
        \/ ToggleConsent(p)
        \/ SetSubscriptionStatus(p)

SpecDoubleOptIn == Init /\ [][NextDoubleOptIn]_vars

Next == NextFrame \/ NextConsent

Spec == Init /\ [][Next]_vars

\* ======================================================================
\*                              properties
\* ======================================================================

TypeOK ==
    /\ store \in [Keys -> BOOLEAN]
    /\ pc \in [Clicks -> {"NEW", "RESOLVING", "INIT", "CHECKING_NETWORK", "SUBSCRIBING",
                          "MESSAGING", "done", "thrown", "crashed"}]
    /\ accountAddress \in [Clicks -> Keys]
    /\ isOnNetwork \in [Clicks -> {"none", "true", "false"}]
    /\ presenceAnswer \in [Clicks -> {"none", "true", "false", "failed"}]
    /\ subscribedRead \in [Clicks -> {"none", "true", "false"}]
    /\ sendState \in [Clicks -> {"none", "pending", "ok", "failed"}]
    /\ consent \in [Addr -> ConsentStates]
    /\ state \in [Pages -> ConsentStates]
    /\ loading \in [Pages -> BOOLEAN]
    /\ invocations \in 0..MaxInvocations

\* clicks whose identity resolved to the address a
ClicksOf(a) == {c \in Clicks : accountAddress[c] = a}

\* the click made no call to the client, the presence checker, the
\* messenger or the store write
NoCallsBeyondRead(c) ==
    /\ calls[c].client = 0
    /\ calls[c].presence = 0
    /\ calls[c].conversation = 0
    /\ calls[c].send = 0
    /\ calls[c].write = 0

C2_AlreadySubscribedShortCircuit ==
    [][\A c \in Clicks :
        /\ (/\ pc[c] = "RESOLVING"
            /\ store[accountAddress[c]]
            /\ pc'[c] \notin {"RESOLVING", "thrown", "crashed"}) =>
              /\ pc'[c] = "done"
              /\ returnMessage'[c] = "You are already subscribed"
              /\ NoCallsBeyondRead(c)'
        /\ (pc[c] = "done" /\ subscribedRead[c] = "true") =>
              /\ pc'[c] = "done"
              /\ returnMessage'[c] = "You are already subscribed"
              /\ NoCallsBeyondRead(c)'
        /\ ~NoCallsBeyondRead(c)' => calls'[c].read = 1
      ]_vars

\* a click ended with the already-subscribed label for an address another click subscribed
C2_Witness ==
    \E c \in Clicks : /\ pc[c] = "done"
                      /\ subscribedRead[c] = "true"
                      /\ accountAddress[c] \in Addr
                      /\ returnMessage[c] = "You are already subscribed"
                      /\ calls[c].read = 1

\* ---------------------------------------------------------------- C3
\* C3: of the clicks that resolve to the same address, at most one sends
\* the opt-in message and writes subscribed=true.
C3_AtMostOneSendPerAddress ==
    \A a \in Addr : Cardinality({c \in ClicksOf(a) : calls[c].send > 0}) <= 1

\* ---------------------------------------------------------------- C4
\* C4: a click for a not subscribed, on-network address whose conversation
\* open and message send succeeded ends with the label "Subscribed! Check
\* your inbox for a confirmation link.", made exactly one send and one store
\* write, and the store holds subscribed=true for the address.
C4_SuccessfulClick ==
    \A c \in Clicks :
        (/\ subscribedRead[c] = "false"
         /\ presenceAnswer[c] = "true"
         /\ calls[c].conversation = 1
         /\ sendState[c] = "ok") =>
            /\ pc[c] = "done"
            /\ returnMessage[c] = "Subscribed! Check your inbox for a confirmation link."
            /\ calls[c].send = 1
            /\ calls[c].write = 1
            /\ store[accountAddress[c]]

\* a click went through all steps and its message was delivered
C4_Witness ==
    \E c \in Clicks : /\ pc[c] = "done"
                      /\ sendState[c] = "ok"
                      /\ returnMessage[c] = SubscribedLabel
                      /\ store[accountAddress[c]]

\* ---------------------------------------------------------------- C5
\* C5: a click whose conversation open or message send failed ends in
\* MessageDeliveryFailed, without the 'Subscribed!' label, and has not
\* written the store.
C5_DeliveryFailureLeavesStore ==
    \A c \in Clicks :
        (error[c] = "MessageDeliveryFailed" \/ sendState[c] = "failed") =>
            /\ error[c] = "MessageDeliveryFailed"
            /\ returnMessage[c] # SubscribedLabel
            /\ calls[c].write = 0

\* ---------------------------------------------------------------- C6
\* C6: a click whose presence check answered false ends with the label
\* "Address is not on the XMTP network" (exact text), opened no
\* conversation, sent no message and did not write the store.
C6_NotOnNetworkLabel ==
    \A c \in Clicks :
        presenceAnswer[c] = "false" =>
            /\ pc[c] = "done"
            /\ returnMessage[c] = "Address is not on the XMTP network"
            /\ calls[c].conversation = 0
            /\ calls[c].send = 0
            /\ calls[c].write = 0

\* ---------------------------------------------------------------- C7
\* the clicks of the address a ran one after the other and all their
\* external calls succeeded with the address on the network
C7_Sequential(a) ==
    /\ ClicksOf(a) # {}
    /\ \A c \in ClicksOf(a) : /\ pc[c] = "done"
                              /\ ~raced[c]
                              /\ presenceAnswer[c] # "false"
                              /\ sendState[c] \in {"none", "ok"}

\* C7: when the clicks of an address ran one after the other (none read the
\* store while another was between its read and its write) and every
\* external call succeeded, exactly one message was sent and one store
\* write made for the address: one click ended SUBSCRIBED and all others
\* ALREADY_SUBSCRIBED.
C7_SequentialClicksSendOnce ==
    \A a \in Addr : C7_Sequential(a) =>
        /\ Cardinality({c \in ClicksOf(a) : calls[c].send = 1}) = 1
        /\ Cardinality({c \in ClicksOf(a) : calls[c].write = 1}) = 1
        /\ \A c \in ClicksOf(a) : calls[c].send <= 1 /\ calls[c].write <= 1
        /\ Cardinality({c \in ClicksOf(a) : returnMessage[c] = SubscribedLabel}) = 1
        /\ \A c \in ClicksOf(a) : returnMessage[c] \in {SubscribedLabel, AlreadySubscribedLabel}

\* two sequential clicks of one address: the first subscribed, the second short-circuited
C7_Witness ==
    \E a \in Addr : /\ C7_Sequential(a)
                    /\ Cardinality(ClicksOf(a)) >= 2
                    /\ \E c \in ClicksOf(a) : returnMessage[c] = AlreadySubscribedLabel
                    /\ \E c \in ClicksOf(a) : returnMessage[c] = SubscribedLabel /\ sendState[c] = "ok"

\* ---------------------------------------------------------------- C8
\* C8: a click whose directory lookup gave no verified address ends with an
\* identity failure and made no external call but the one lookup: no store
\* read, no client, no presence check, no conversation, no send, no write.
C8_NoVerifiedAddressStops ==
    \A c \in Clicks :
        (calls[c].lookup = 1 /\ error[c] # "FetchFailed" /\ accountAddress[c] = Undefined) =>
            /\ calls[c].read = 0
            /\ NoCallsBeyondRead(c)
            /\ pc[c] \in {"done", "thrown"} => (pc[c] = "thrown" /\ error[c] = "TypeError")

C10_Map == [unknown |-> "allowed", denied |-> "allowed", allowed |-> "denied"]
C10_Label == [unknown |-> "Consent State: unknown", allowed |-> "Consent State: allowed",
              denied |-> "Consent State: denied"]

\* C10: a successful consent action maps the consent state it read after
\* the refresh by unknown -> allowed, denied -> allowed, allowed -> denied;
\* it calls contacts.allow exactly in the first two cases and contacts.deny
\* exactly in the third, and the label becomes "Consent State: " + new state.
C10_ToggleMapping ==
    [][\A p \in Pages :
        /\ (hpc[p] = "toggle" /\ hpc'[p] = "render") =>
              /\ consent'[wallet[p]] = C10_Map[startState[p]]
              /\ state'[p] = C10_Map[startState[p]]
              /\ hcalls'[p].allow = (IF startState[p] \in {"unknown", "denied"} THEN 1 ELSE 0)
              /\ hcalls'[p].deny = (IF startState[p] = "allowed" THEN 1 ELSE 0)
        /\ (hpc[p] = "render" /\ hpc'[p] = "idle") =>
              /\ subscriptionStatus'[p] = C10_Label[C10_Map[startState[p]]]
              /\ hcalls'[p].allow + hcalls'[p].deny = 1
      ]_vars

\* a successful consent action that started from denied shows allowed
C10_Witness ==
    \E p \in Pages : /\ hpc[p] = "idle"
                     /\ ~caught[p]
                     /\ startState[p] = "denied"
                     /\ consent[wallet[p]] = "allowed"
                     /\ hcalls[p].allow = 1
                     /\ subscriptionStatus[p] = "Consent State: allowed"

\* ---------------------------------------------------------------- C11
\* the state after two successive toggles, by the state before the first
C11_TwoToggles == [unknown |-> "denied", allowed |-> "allowed", denied |-> "denied"]

C12_FailureKeepsLabel ==
    [][\A p \in Pages :
        /\ (hpc'[p] = "idle" /\ caught'[p]) => subscriptionStatus'[p] = labelBefore'[p]
        /\ subscriptionStatus'[p] # subscriptionStatus[p] =>
              /\ hpc[p] = "render"
              /\ ~caught[p]
              /\ hcalls[p].allow + hcalls[p].deny = 1
      ]_vars

\* the deny call of a page that showed allowed failed, the label still shows allowed
C12_Witness ==
    \E p \in Pages : /\ hpc[p] = "idle"
                     /\ caught[p]
                     /\ hcalls[p].deny = 1
                     /\ labelBefore[p] = "Consent State: allowed"
                     /\ subscriptionStatus[p] = "Consent State: allowed"

\* ---------------------------------------------------------------- C13
\* C13: whatever external call fails, a click that ended has returned a
\* response with a label; no failure leaves getResponse as an exception.
C13_EveryClickEndsWithLabel ==
    \A c \in Clicks :
        /\ pc[c] # "thrown"
        /\ error[c] = "none"
        /\ pc[c] = "done" => returnMessage[c] # ""

\* ---------------------------------------------------------------- C14
\* C14: a click that opened a conversation or sent the opt-in message has
\* before, in the same click, read the address as not subscribed and got
\* a positive answer of the presence check.
C14_SendOnlyAfterPositivePresence ==
    \A c \in Clicks :
        (calls[c].conversation > 0 \/ calls[c].send > 0 \/ sendState[c] # "none") =>
            /\ calls[c].read = 1
            /\ subscribedRead[c] = "false"
            /\ calls[c].presence = 1
            /\ presenceAnswer[c] = "true"
            /\ isOnNetwork[c] = "true"
            /\ accountAddress[c] \in Addr

\* a message was sent after a negative read and a positive presence check
C14_Witness ==
    \E c \in Clicks : /\ calls[c].send = 1
                      /\ sendState[c] = "pending"
                      /\ subscribedRead[c] = "false"
                      /\ presenceAnswer[c] = "true"

\* ---------------------------------------------------------------- C15
\* C15: after a click ended in MessageDeliveryFailed, and no other click
\* wrote its address, the address is not subscribed in the store and no
\* later click of the address short-circuits to ALREADY_SUBSCRIBED.
C15_FailedDeliveryIsRetried ==
    \A c \in Clicks :
        (/\ error[c] = "MessageDeliveryFailed"
         /\ \A d \in Clicks \ {c} : accountAddress[d] = accountAddress[c] => calls[d].write = 0) =>
            /\ ~store[accountAddress[c]]
            /\ \A d \in Clicks \ {c} :
                  accountAddress[d] = accountAddress[c] =>
                      /\ subscribedRead[d] # "true"
                      /\ returnMessage[d] # AlreadySubscribedLabel

\* ---------------------------------------------------------------- C16
\* C16: a step of a button click leaves the consent state of every
\* address unchanged and makes no allow / deny call; a step of the consent
\* action leaves the Subscription Store unchanged and makes no store write.
C16_DisjointState ==
    [][/\ frameVars' # frameVars =>
            /\ consent' = consent
            /\ hcalls' = hcalls
            /\ before' = before
       /\ consentVars' # consentVars =>
            /\ store' = store
            /\ calls' = calls
      ]_vars

\* an address was subscribed by a click and its consent was toggled by the page
C16_Witness ==
    \E a \in Addr : /\ store[a]
                    /\ consent[a] = "allowed"
                    /\ \E c \in Clicks : accountAddress[c] = a /\ pc[c] = "done"
                    /\ \E p \in Pages : wallet[p] = a /\ hpc[p] = "idle" /\ hcalls[p].allow = 1

\* ---------------------------------------------------------------- C18
\* C18: once the store holds subscribed=true for an address it holds it in
\* every later state, whatever clicks and consent actions follow.
C18_SubscribedIsMonotonic ==
    [][\A k \in Keys : store[k] => store'[k]]_vars

\* a subscribed address whose consent was toggled to denied is still subscribed
C18_Witness ==
    \E a \in Addr : /\ store[a]
                    /\ consent[a] = "denied"
                    /\ \E p \in Pages : wallet[p] = a /\ hpc[p] = "idle" /\ hcalls[p].deny = 1

\* ---------------------------------------------------------------- C17
\* C17: an invocation of the consent action refreshes the consent list,
\* reads the state from the refreshed list, makes one allow or deny call
\* and then renders the label: the toggle works on the refreshed state, no
\* allow / deny call precedes the refresh, and a successful invocation has
\* made exactly one of the two calls.
C17_ConsentStepOrder ==
    [][\A p \in Pages :
        /\ hpc'[p] = "toggle" =>
              /\ hcalls'[p].refresh = 1
              /\ hcalls'[p].allow + hcalls'[p].deny = 0
              /\ state'[p] = startState'[p]
        /\ hcalls'[p].allow + hcalls'[p].deny > 0 =>
              /\ hcalls'[p].refresh = 1
              /\ hcalls'[p].allow + hcalls'[p].deny = 1
        /\ hpc'[p] = "render" => hcalls'[p].allow + hcalls'[p].deny = 1
        /\ (hpc[p] = "refresh" /\ hpc'[p] = "toggle") => state'[p] = consent[wallet[p]]
        /\ (hpc[p] = "render" /\ hpc'[p] = "idle") =>
              /\ hcalls'[p].refresh = 1
              /\ hcalls'[p].allow + hcalls'[p].deny = 1
              /\ subscriptionStatus'[p] = ConsentLabelPrefix \o state[p]
      ]_vars

\* a successful invocation that refreshed, denied and rendered
C17_Witness ==
    \E p \in Pages : /\ hpc[p] = "idle"
                     /\ ~caught[p]
                     /\ hcalls[p] = [refresh |-> 1, allow |-> 0, deny |-> 1]
                     /\ subscriptionStatus[p] = "Consent State: denied"

\* ---------------------------------------------------------------- C19
\* C19: the loading flag is true while an invocation of handleClick runs;
\* after an invocation that completed without error it is false, after an
\* invocation that ended in the catch block it is still true.
C19_LoadingFlag ==
    \A p \in Pages :
        /\ hpc[p] # "idle" => loading[p]
        /\ (hpc[p] = "idle" /\ caught[p]) => loading[p]
        /\ (hpc[p] = "idle" /\ ~caught[p]) => ~loading[p]

\* an invocation ended in the catch block and the page still shows loading
C19_Witness ==
    \E p \in Pages : /\ hpc[p] = "idle"
                     /\ caught[p]
                     /\ loading[p]
                     /\ hcalls[p].refresh = 1
====
